---- MODULE Spec2Model ----
(***************************************************************************)
(* State-machine model of coliemacs.py: the run_fsm driver, the Title and  *)
(* Loop state handlers, the Game object they share and the two draw        *)
(* routines.  One action per statement group of run_fsm and one per event  *)
(* reaction method.  tcod.event.wait() blocks until an event is queued and *)
(* returns an iterator that polls the queue, so the for loop of            *)
(* StateHandler.handle dispatches the events of a batch one at a time, in  *)
(* queue order, until a poll finds the queue empty.                        *)
(***************************************************************************)
EXTENDS Integers, Sequences, FiniteSets, TLC

VARIABLES
    state_handlers, \* run_fsm parameter: the state -> handler class table
    state,          \* run_fsm local: current state, None when terminal
    last_state,     \* run_fsm local: state of the previous iteration
    game,           \* the one Game object, shared by reference
    handler,        \* the handler object of this iteration: class, next_state
    events,         \* the events wait() has yielded in this iteration so far
    pc,             \* position of run_fsm
    hooks,          \* history: hooks invoked in this iteration, in call order
    prev_iteration, \* history: state of the previous iteration, NoIter if none
    start,          \* history: the arguments run_fsm was called with
    quitDelivered,  \* history: a Quit event has been dispatched
    escDelivered,   \* history: Escape key-downs dispatched to a Loop handler
    enterCalls      \* history: on_enter_state calls so far, up to MaxEnter

vars == << state_handlers, state, last_state, game, handler, events, pc,
           hooks, prev_iteration, start, quitDelivered, escDelivered,
           enterCalls >>

----------------------------------------------------------------------------
(* Bounds of the model *)

MaxBatch == 2       \* most events one wait() yields
MaxText == 2        \* longest loop_text the input source lets the user type
MaxCount == 11      \* largest quit_count the input source lets the user reach
MaxDrawLen == 44    \* longest loop_text handed to draw_loop on its own
MaxRound == 2       \* longest append/backspace round trip tried
MaxEnter == 3       \* enterCalls stops counting here

(* Program constants *)

CONSOLE_WIDTH == 21
QUIT_LIMIT == 10
K_BACKSPACE == 8
K_ESCAPE == 27
K_a == 97
K_z == 122

None == "None"
TITLE == "title"
LOOP == "loop"
State == {TITLE, LOOP}
NoIter == "NoIter"

TitleStateHandler == "TitleStateHandler"
LoopStateHandler == "LoopStateHandler"

----------------------------------------------------------------------------
(* Characters and strings: a string is a sequence of one-character strings *)

\* The printable ASCII characters, code 32 (space) to code 126 (tilde); the
\* double quote, the backslash and the grave accent are written by name
Ascii == <<
    " ", "!", "dquote", "#", "$", "%", "&", "'", "(", ")", "*", "+",
    ",", "-", ".", "/", "0", "1", "2", "3", "4", "5", "6", "7",
    "8", "9", ":", ";", "<", "=", ">", "?", "@", "A", "B", "C",
    "D", "E", "F", "G", "H", "I", "J", "K", "L", "M", "N", "O",
    "P", "Q", "R", "S", "T", "U", "V", "W", "X", "Y", "Z", "[",
    "bslash", "]", "^", "_", "grave", "a", "b", "c", "d", "e", "f", "g",
    "h", "i", "j", "k", "l", "m", "n", "o", "p", "q", "r", "s",
    "t", "u", "v", "w", "x", "y", "z", "{", "|", "}", "~" >>

\* chr(n): the one-character string of code point n
Chr(n) == IF 32 <= n /\ n <= 126 THEN Ascii[n - 31] ELSE "chr" \o ToString(n)

\* str.upper() on one character: a-z become A-Z, everything else stays
UpperOf ==
    [c \in {Chr(n) : n \in K_a..K_z} |->
        Chr((CHOOSE n \in K_a..K_z : Chr(n) = c) - 32)]
Upper(c) == IF c \in DOMAIN UpperOf THEN UpperOf[c] ELSE c

StrUpper(s) == [k \in 1..Len(s) |-> Upper(s[k])]

Min(a, b) == IF a < b THEN a ELSE b
Max(a, b) == IF a > b THEN a ELSE b

\* Python s[a:b]: negative indices count from the end, both are clamped
PyIndex(n, len) == IF n < 0 THEN Max(n + len, 0) ELSE Min(n, len)
PySlice(s, a, b) == SubSeq(s, PyIndex(a, Len(s)) + 1, PyIndex(b, Len(s)))

----------------------------------------------------------------------------
(* Drawing: a console is the sequence of print calls since its last clear *)

Hello == << "H", "e", "l", "l", "o", "!" >>

ConsolePrint(console, x, y, s) == Append(console, [x |-> x, y |-> y, s |-> s])

draw_title(g) ==
    [g EXCEPT !.draw_console = ConsolePrint(<< >>, 0, 0, Hello)]

\* Mutant of DrawLoopFrom: the slice is one character too long
RECURSIVE DrawLoopFrom_LongSlice(_, _, _, _)
DrawLoopFrom_LongSlice(text, k, y, console) ==
    IF k >= Len(text) THEN console
    ELSE DrawLoopFrom_LongSlice(text, k + CONSOLE_WIDTH, y + 1,
             ConsolePrint(console, 0, y,
                          StrUpper(PySlice(text, k, k + CONSOLE_WIDTH + 1))))

RECURSIVE DrawLoopFrom(_, _, _, _)
DrawLoopFrom(text, k, y, console) ==
    IF k >= Len(text) THEN console
    ELSE DrawLoopFrom(text, k + CONSOLE_WIDTH, y + 1,
             ConsolePrint(console, 0, y,
                          StrUpper(PySlice(text, k, k + CONSOLE_WIDTH))))

draw_loop(g) ==
    [g EXCEPT !.draw_console = DrawLoopFrom(g.loop_text, 0, 0, << >>)]

blit_and_flush(g) == [g EXCEPT !.root_console = g.draw_console]

Draw(cls, g) ==
    IF cls = TitleStateHandler THEN draw_title(g) ELSE draw_loop(g)

on_enter_state(cls, g) == blit_and_flush(Draw(cls, g))

\* Mutant of on_reenter_state: a state that is re-entered is not drawn again
on_reenter_state_NoDraw(cls, g) == blit_and_flush(g)

on_reenter_state(cls, g) == blit_and_flush(Draw(cls, g))

----------------------------------------------------------------------------
(* Events and the reaction methods.  self is [next_state, game].           *)

Quit == [type |-> "QUIT", sym |-> 0]
KeyDown(sym) == [type |-> "KEYDOWN", sym |-> sym]
KeyUp(sym) == [type |-> "KEYUP", sym |-> sym]

\* Backspace, Escape, the first and last letter, and the codes around them
Keys == {K_BACKSPACE, K_ESCAPE, K_a - 1, K_a, K_z, K_z + 1}
Events == {Quit} \cup {KeyDown(k) : k \in Keys} \cup {KeyUp(K_ESCAPE)}

\* Mutant of TitleEvQuit: the Quit event is ignored on the title screen
TitleEvQuit_Ignored(self) == self

TitleEvQuit(self) == [self EXCEPT !.next_state = None]

\* Mutant of TitleEvKeydown: an Escape on the title screen is counted
TitleEvKeydown_CountsEscape(self, sym) ==
    IF sym = K_ESCAPE
    THEN [self EXCEPT !.next_state = None, !.game.quit_count = @ + 1]
    ELSE [self EXCEPT !.next_state = LOOP]

\* Mutant of TitleEvKeydown: only letter keys start the loop screen
TitleEvKeydown_LettersOnly(self, sym) ==
    IF sym = K_ESCAPE
    THEN [self EXCEPT !.next_state = None]
    ELSE IF K_a <= sym /\ sym <= K_z
    THEN [self EXCEPT !.next_state = LOOP]
    ELSE self

TitleEvKeydown(self, sym) ==
    IF sym = K_ESCAPE
    THEN [self EXCEPT !.next_state = None]
    ELSE [self EXCEPT !.next_state = LOOP]

\* Mutant of LoopEvKeydown: Backspace on an empty loop_text goes back to the
\* title screen
LoopEvKeydown_BackToTitle(self, sym) ==
    IF sym = K_ESCAPE
    THEN LET counted == [self EXCEPT !.game.quit_count = @ + 1]
         IN  IF counted.game.quit_count = QUIT_LIMIT
             THEN [counted EXCEPT !.next_state = None]
             ELSE counted
    ELSE IF sym = K_BACKSPACE
    THEN IF self.game.loop_text = << >>
         THEN [self EXCEPT !.next_state = TITLE]
         ELSE [self EXCEPT !.game.loop_text = PySlice(@, 0, -1)]
    ELSE IF K_a <= sym /\ sym <= K_z
    THEN [self EXCEPT !.game.loop_text = Append(@, Chr(sym))]
    ELSE self

\* Mutant of LoopEvKeydown: the letter is stored as it is displayed
LoopEvKeydown_StoresUpper(self, sym) ==
    IF sym = K_ESCAPE
    THEN LET counted == [self EXCEPT !.game.quit_count = @ + 1]
         IN  IF counted.game.quit_count = QUIT_LIMIT
             THEN [counted EXCEPT !.next_state = None]
             ELSE counted
    ELSE IF sym = K_BACKSPACE
    THEN [self EXCEPT !.game.loop_text = PySlice(@, 0, -1)]
    ELSE IF K_a <= sym /\ sym <= K_z
    THEN [self EXCEPT !.game.loop_text = Append(@, Upper(Chr(sym)))]
    ELSE self

\* Mutant of LoopEvKeydown: Escape is counted but never ends the loop state
LoopEvKeydown_NeverExits(self, sym) ==
    IF sym = K_ESCAPE
    THEN [self EXCEPT !.game.quit_count = @ + 1]
    ELSE IF sym = K_BACKSPACE
    THEN [self EXCEPT !.game.loop_text = PySlice(@, 0, -1)]
    ELSE IF K_a <= sym /\ sym <= K_z
    THEN [self EXCEPT !.game.loop_text = Append(@, Chr(sym))]
    ELSE self

\* Mutant of LoopEvKeydown: quit_count is tested before it is incremented
LoopEvKeydown_TestBeforeCount(self, sym) ==
    IF sym = K_ESCAPE
    THEN LET counted == [self EXCEPT !.game.quit_count = @ + 1]
         IN  IF self.game.quit_count = QUIT_LIMIT
             THEN [counted EXCEPT !.next_state = None]
             ELSE counted
    ELSE IF sym = K_BACKSPACE
    THEN [self EXCEPT !.game.loop_text = PySlice(@, 0, -1)]
    ELSE IF K_a <= sym /\ sym <= K_z
    THEN [self EXCEPT !.game.loop_text = Append(@, Chr(sym))]
    ELSE self

\* Mutant of LoopEvKeydown: the exit is requested one Escape early
LoopEvKeydown_ExitEarly(self, sym) ==
    IF sym = K_ESCAPE
    THEN LET counted == [self EXCEPT !.game.quit_count = @ + 1]
         IN  IF counted.game.quit_count = QUIT_LIMIT - 1
             THEN [counted EXCEPT !.next_state = None]
             ELSE counted
    ELSE IF sym = K_BACKSPACE
    THEN [self EXCEPT !.game.loop_text = PySlice(@, 0, -1)]
    ELSE IF K_a <= sym /\ sym <= K_z
    THEN [self EXCEPT !.game.loop_text = Append(@, Chr(sym))]
    ELSE self

\* Mutant of LoopEvKeydown: a letter key asks for the loop screen, as any
\* key does on the title screen
LoopEvKeydown_LetterResumes(self, sym) ==
    IF sym = K_ESCAPE
    THEN LET counted == [self EXCEPT !.game.quit_count = @ + 1]
         IN  IF counted.game.quit_count = QUIT_LIMIT
             THEN [counted EXCEPT !.next_state = None]
             ELSE counted
    ELSE IF sym = K_BACKSPACE
    THEN [self EXCEPT !.game.loop_text = PySlice(@, 0, -1)]
    ELSE IF K_a <= sym /\ sym <= K_z
    THEN [self EXCEPT !.game.loop_text = Append(@, Chr(sym)),
                      !.next_state = LOOP]
    ELSE self

\* Mutant of LoopEvKeydown: the letter range is one code too wide at each end
LoopEvKeydown_WideRange(self, sym) ==
    IF sym = K_ESCAPE
    THEN LET counted == [self EXCEPT !.game.quit_count = @ + 1]
         IN  IF counted.game.quit_count = QUIT_LIMIT
             THEN [counted EXCEPT !.next_state = None]
             ELSE counted
    ELSE IF sym = K_BACKSPACE
    THEN [self EXCEPT !.game.loop_text = PySlice(@, 0, -1)]
    ELSE IF K_a - 1 <= sym /\ sym <= K_z + 1
    THEN [self EXCEPT !.game.loop_text = Append(@, Chr(sym))]
    ELSE self

\* Mutant of LoopEvKeydown: Backspace drops the first character (text[1:])
LoopEvKeydown_DropsFirst(self, sym) ==
    IF sym = K_ESCAPE
    THEN LET counted == [self EXCEPT !.game.quit_count = @ + 1]
         IN  IF counted.game.quit_count = QUIT_LIMIT
             THEN [counted EXCEPT !.next_state = None]
             ELSE counted
    ELSE IF sym = K_BACKSPACE
    THEN [self EXCEPT !.game.loop_text = PySlice(@, 1, Len(@))]
    ELSE IF K_a <= sym /\ sym <= K_z
    THEN [self EXCEPT !.game.loop_text = Append(@, Chr(sym))]
    ELSE self

LoopEvKeydown(self, sym) ==
    IF sym = K_ESCAPE
    THEN LET counted == [self EXCEPT !.game.quit_count = @ + 1]
         IN  IF counted.game.quit_count = QUIT_LIMIT
             THEN [counted EXCEPT !.next_state = None]
             ELSE counted
    ELSE IF sym = K_BACKSPACE
    THEN [self EXCEPT !.game.loop_text = PySlice(@, 0, -1)]
    ELSE IF K_a <= sym /\ sym <= K_z
    THEN [self EXCEPT !.game.loop_text = Append(@, Chr(sym))]
    ELSE self

\* Mutant of LoopEvQuit: the Quit event is ignored
LoopEvQuit_Ignored(self) == self

LoopEvQuit(self) == [self EXCEPT !.next_state = None]

\* EventDispatch's own ev_* methods, which the handlers do not override
EvDefault(self) == self

\* Mutant of Dispatch: an event goes to the handler of the state asked for so
\* far, so a transition takes effect in the middle of the batch
Dispatch_ByRequestedState(cls, self, e) ==
    LET title == IF self.next_state \in State
                 THEN self.next_state = TITLE
                 ELSE cls = TitleStateHandler
    IN  IF e.type = "QUIT"
        THEN IF title THEN TitleEvQuit(self) ELSE LoopEvQuit(self)
        ELSE IF e.type = "KEYDOWN"
        THEN IF title THEN TitleEvKeydown(self, e.sym)
                      ELSE LoopEvKeydown(self, e.sym)
        ELSE EvDefault(self)

\* EventDispatch.dispatch: the method is chosen by the event's type
Dispatch(cls, self, e) ==
    IF e.type = "QUIT"
    THEN IF cls = TitleStateHandler THEN TitleEvQuit(self) ELSE LoopEvQuit(self)
    ELSE IF e.type = "KEYDOWN"
    THEN IF cls = TitleStateHandler THEN TitleEvKeydown(self, e.sym)
                                    ELSE LoopEvKeydown(self, e.sym)
    ELSE EvDefault(self)

\* StateHandler.handle's for loop over a whole batch (the handler after each
\* event is bound as a value before the next event is dispatched)
RECURSIVE HandleAll(_, _, _)
HandleAll(cls, self, batch) ==
    IF batch = << >> THEN self
    ELSE CHOOSE r \in {HandleAll(cls, after, Tail(batch)) :
                          after \in {Dispatch(cls, self, Head(batch))}} : TRUE

\* Mutant of StateHandler: the constructor leaves next_state at None
StateHandler_StartsTerminal(cls, next_state) ==
    [cls |-> cls, next_state |-> None]

\* StateHandler.__init__ (the Game is held by reference: see game)
StateHandler(cls, next_state) == [cls |-> cls, next_state |-> next_state]

----------------------------------------------------------------------------
(* run_fsm *)

\* main's table, and a table a caller can pass that lacks a state
MainHandlers == [s \in State |->
                   IF s = TITLE THEN TitleStateHandler ELSE LoopStateHandler]
Tables == {[s \in keys |-> MainHandlers[s]] : keys \in {State, {TITLE}}}

InitTexts == {<< >>, << "z" >>}
InitCounts == {0, QUIT_LIMIT - 1, QUIT_LIMIT}

NewGame(text, count) ==
    [root_console |-> << >>, draw_console |-> << >>,
     loop_text |-> text, quit_count |-> count]

NoHandler == [cls |-> None, next_state |-> None]

\* Mutant of InitLastState: last_state starts as the title state
InitLastState_Title == TITLE

InitLastState == None

Init ==
    /\ state_handlers \in Tables
    /\ state \in State
    /\ \E t \in InitTexts, c \in InitCounts : game = NewGame(t, c)
    /\ last_state = InitLastState
    /\ handler = NoHandler
    /\ events = << >>
    /\ pc = "loop"
    /\ hooks = << >>
    /\ prev_iteration = NoIter
    /\ start = [state |-> state, quit_count |-> game.quit_count]
    /\ quitDelivered = FALSE
    /\ escDelivered = 0
    /\ enterCalls = 0

history == << hooks, prev_iteration, start, quitDelivered, escDelivered,
             enterCalls >>

\* Mutant of Running: the loop never tests the state
Running_Always(s) == TRUE

\* line 123: the while test
Running(s) == s # None

\* line 123: the while test fails
Exit ==
    /\ pc = "loop"
    /\ ~Running(state)
    /\ pc' = "done"
    /\ UNCHANGED << state_handlers, state, last_state, game, handler, events,
                    history >>

\* line 124: KeyError, the table has no entry for the state
LookupFails ==
    /\ pc = "loop"
    /\ Running(state)
    /\ state \notin DOMAIN state_handlers
    /\ pc' = "error"
    /\ UNCHANGED << state_handlers, state, last_state, game, handler, events,
                    history >>

\* Mutant of Construct: a state missing from the table gets the title handler
Construct_DefaultHandler ==
    /\ pc = "loop"
    /\ Running(state)
    /\ handler' = StateHandler(IF state \in DOMAIN state_handlers
                                THEN state_handlers[state]
                                ELSE TitleStateHandler, state)
    /\ events' = << >>
    /\ hooks' = << >>
    /\ pc' = "hook"
    /\ UNCHANGED << state_handlers, state, last_state, game,
                    prev_iteration, start, quitDelivered, escDelivered,
                    enterCalls >>

\* lines 124-125: look the class up and construct the handler (the batch of
\* the previous iteration is gone by now)
Construct ==
    /\ pc = "loop"
    /\ Running(state)
    /\ state \in DOMAIN state_handlers
    /\ handler' = StateHandler(state_handlers[state], state)
    /\ events' = << >>
    /\ hooks' = << >>
    /\ pc' = "hook"
    /\ UNCHANGED << state_handlers, state, last_state, game,
                    prev_iteration, start, quitDelivered, escDelivered,
                    enterCalls >>

UseReenter(s, last) == s = last

\* lines 126-127 and 130
OnReenterState ==
    /\ pc = "hook"
    /\ UseReenter(state, last_state)
    /\ game' = on_reenter_state(handler.cls, game)
    /\ hooks' = Append(hooks, "on_reenter_state")
    /\ last_state' = state
    /\ pc' = "wait"
    /\ UNCHANGED << state_handlers, state, handler, events,
                    prev_iteration, start, quitDelivered, escDelivered,
                    enterCalls >>

\* lines 128-130
OnEnterState ==
    /\ pc = "hook"
    /\ ~UseReenter(state, last_state)
    /\ game' = on_enter_state(handler.cls, game)
    /\ hooks' = Append(hooks, "on_enter_state")
    /\ enterCalls' = Min(enterCalls + 1, MaxEnter)
    /\ last_state' = state
    /\ pc' = "wait"
    /\ UNCHANGED << state_handlers, state, handler, events,
                    prev_iteration, start, quitDelivered, escDelivered >>

\* line 66: tcod.event.wait() blocks until at least one event is queued
Wait ==
    /\ pc = "wait"
    /\ pc' = "dispatch"
    /\ UNCHANGED << state_handlers, state, last_state, game, handler, events,
                    history >>

IsLetter(sym) == K_a <= sym /\ sym <= K_z

\* The input source of the model: what the user can still send
CanSend(e) ==
    /\ Len(events) < MaxBatch
    /\ handler.cls = LoopStateHandler /\ e.type = "KEYDOWN" =>
         /\ IsLetter(e.sym) => Len(game.loop_text) < MaxText
         /\ e.sym = K_ESCAPE => game.quit_count < MaxCount

\* lines 66-67 for one event e: the iterator yields it and it is dispatched
DispatchNext(e) ==
    /\ CanSend(e)
    /\ LET self == [next_state |-> handler.next_state, game |-> game]
           after == Dispatch(handler.cls, self, e)
       IN  /\ handler' = [handler EXCEPT !.next_state = after.next_state]
           /\ game' = after.game
    /\ events' = Append(events, e)
    /\ quitDelivered' = (quitDelivered \/ e = Quit)
    /\ escDelivered' =
         IF handler.cls = LoopStateHandler /\ e = KeyDown(K_ESCAPE)
         THEN escDelivered + 1 ELSE escDelivered
    /\ UNCHANGED << state_handlers, state, last_state, pc,
                    hooks, prev_iteration, start, enterCalls >>

EventsOf(type) == {e \in Events : e.type = type}

\* TitleStateHandler.ev_quit
TitleQuit ==
    /\ pc = "dispatch"
    /\ handler.cls = TitleStateHandler
    /\ \E e \in EventsOf("QUIT") : DispatchNext(e)

\* TitleStateHandler.ev_keydown
TitleKeydown ==
    /\ pc = "dispatch"
    /\ handler.cls = TitleStateHandler
    /\ \E e \in EventsOf("KEYDOWN") : DispatchNext(e)

\* an event TitleStateHandler has no method for
TitleIgnored ==
    /\ pc = "dispatch"
    /\ handler.cls = TitleStateHandler
    /\ \E e \in EventsOf("KEYUP") : DispatchNext(e)

\* LoopStateHandler.ev_quit
LoopQuit ==
    /\ pc = "dispatch"
    /\ handler.cls = LoopStateHandler
    /\ \E e \in EventsOf("QUIT") : DispatchNext(e)

\* LoopStateHandler.ev_keydown
LoopKeydown ==
    /\ pc = "dispatch"
    /\ handler.cls = LoopStateHandler
    /\ \E e \in EventsOf("KEYDOWN") : DispatchNext(e)

\* an event LoopStateHandler has no method for
LoopIgnored ==
    /\ pc = "dispatch"
    /\ handler.cls = LoopStateHandler
    /\ \E e \in EventsOf("KEYUP") : DispatchNext(e)

\* lines 68 and 131: the queue is empty, handle() returns
Return ==
    /\ pc = "dispatch"
    /\ Len(events) >= 1
    /\ state' = handler.next_state
    /\ prev_iteration' = state
    /\ pc' = "loop"
    /\ UNCHANGED << state_handlers, last_state, game, handler, events,
                    hooks, start, quitDelivered, escDelivered, enterCalls >>

Next ==
    \/ Exit
    \/ LookupFails
    \/ Construct
    \/ OnReenterState
    \/ OnEnterState
    \/ Wait
    \/ TitleQuit
    \/ TitleKeydown
    \/ TitleIgnored
    \/ LoopQuit
    \/ LoopKeydown
    \/ LoopIgnored
    \/ Return

Spec == Init /\ [][Next]_vars

----------------------------------------------------------------------------
(* draw() on its own: the hooks applied to a handler that main's table    *)
(* would construct, for a Game whose loop_text is long enough to wrap.     *)

\* A text of a-z characters of length len, starting at letter number off
TextOf(len, off) == [k \in 1..len |-> Chr(K_a + ((k + off) % 26))]
DrawTexts == {TextOf(len, off) : len \in 0..MaxDrawLen, off \in {0, 7}}

InitDraw ==
    /\ state_handlers = MainHandlers
    /\ state \in State
    /\ \E t \in DrawTexts : game = NewGame(t, 0)
    /\ last_state \in State \cup {None}
    /\ handler = StateHandler(state_handlers[state], state)
    /\ events = << >>
    /\ pc = "hook"
    /\ hooks = << >>
    /\ prev_iteration = last_state
    /\ start = [state |-> TITLE, quit_count |-> 0]
    /\ quitDelivered = FALSE
    /\ escDelivered = 0
    /\ enterCalls = 0

NextDraw ==
    \/ OnReenterState
    \/ OnEnterState

SpecDraw == InitDraw /\ [][NextDraw]_vars

----------------------------------------------------------------------------
(* Properties *)

\* The iteration that just returned ran a handler for state s
Returned(s) == pc = "loop" /\ prev_iteration = s

Has(batch, e) == \E k \in 1..Len(batch) : batch[k] = e

\* C1: for every state that is a key of the handler table, and whatever
\* loop_text and quit_count are, an iteration whose batch is the single event
\* Quit returns the terminal state None, and the driver's next step is to
\* leave the while loop.
C1_QuitBatchIsTerminal ==
    \A s \in DOMAIN state_handlers :
        (Returned(s) /\ events = << Quit >>) =>
            /\ state = None
            /\ ENABLED Exit
            /\ ~ENABLED Construct

C1_Witness ==
    /\ Returned(LOOP)
    /\ events = << Quit >>
    /\ state = None
    /\ game.quit_count = QUIT_LIMIT - 1
    /\ game.loop_text # << >>

\* C2: every batch handled by the Title handler that contains a Quit event or
\* an Escape key-down returns the terminal state, whatever else it contains.
C2_TitleQuitOrEscapeIsTerminal ==
    (Returned(TITLE) /\ (Has(events, Quit) \/ Has(events, KeyDown(K_ESCAPE))))
        => state = None

\* C3: every non-empty batch handled by the Title handler that consists only
\* of key-downs other than Escape returns Loop.
C3_TitleKeydownGoesToLoop ==
    ( /\ Returned(TITLE)
      /\ events # << >>
      /\ \A k \in 1..Len(events) :
            events[k].type = "KEYDOWN" /\ events[k].sym # K_ESCAPE )
        => state = LOOP

C3_Witness ==
    /\ Returned(TITLE)
    /\ events = << KeyDown(K_BACKSPACE), KeyDown(K_z + 1) >>
    /\ state = LOOP

EscIn(batch) ==
    Cardinality({k \in 1..Len(batch) : batch[k] = KeyDown(K_ESCAPE)})

\* run_fsm was called with the given state and a Game whose quit_count is 0
StartedIn(s) == start.state = s /\ start.quit_count = 0

\* C4 as stated: started in Loop with quit_count 0 and no Quit delivered, the
\* state is non-terminal after the batch that contains the k-th Escape
\* key-down for every k <= 9, and terminal after the batch that contains the
\* 10th.  (The batch just handled contains the Escapes numbered from
\* escDelivered - EscIn(events) + 1 to escDelivered.)
C4_AsStated ==
    ( /\ StartedIn(LOOP)
      /\ ~quitDelivered
      /\ Returned(LOOP)
      /\ EscIn(events) >= 1 )
        => LET first == escDelivered - EscIn(events) + 1
           IN  /\ first <= QUIT_LIMIT - 1 => state # None
               /\ (first <= QUIT_LIMIT /\ QUIT_LIMIT <= escDelivered)
                    => state = None

\* C4 (amended): started in Loop with quit_count 0 and no Quit delivered,
\* after every batch the state is still Loop if at most 9 Escape key-downs
\* have been handled by the end of that batch, and terminal if 10 or more
\* have, however the events are split into batches and mixed with other keys.
C4_TenthEscapeTerminates ==
    (StartedIn(LOOP) /\ ~quitDelivered /\ Returned(LOOP))
        => /\ escDelivered <= QUIT_LIMIT - 1 => state = LOOP
           /\ escDelivered >= QUIT_LIMIT => state = None

C4_Witness ==
    /\ StartedIn(LOOP)
    /\ ~quitDelivered
    /\ Returned(LOOP)
    /\ escDelivered = QUIT_LIMIT
    /\ events = << KeyDown(K_ESCAPE), KeyDown(K_a) >>
    /\ state = None

\* C5 as stated: when run_fsm, started in Title with quit_count 0, ends from
\* the Loop state without a Quit event, quit_count is exactly 10.
C5_AsStated ==
    ( /\ StartedIn(TITLE)
      /\ ~quitDelivered
      /\ pc = "done"
      /\ prev_iteration = LOOP )
        => game.quit_count = QUIT_LIMIT

\* C5 (amended): in that case quit_count is the number of Escape key-downs
\* the Loop handlers were given, which is at least 10 and exceeds 10 by the
\* number of Escape key-downs that follow the 10th in the last batch; it is
\* exactly 10 when the last batch holds a single Escape.
C5_CountAtTermination ==
    ( /\ StartedIn(TITLE)
      /\ ~quitDelivered
      /\ pc = "done"
      /\ prev_iteration = LOOP )
        => /\ game.quit_count = escDelivered
           /\ game.quit_count >= QUIT_LIMIT
           /\ game.quit_count - EscIn(events) < QUIT_LIMIT

C5_Witness ==
    /\ StartedIn(TITLE)
    /\ ~quitDelivered
    /\ pc = "done"
    /\ prev_iteration = LOOP
    /\ game.quit_count = QUIT_LIMIT + 1
    /\ EscIn(events) = 2

\* C6: whatever quit_count is, every batch handled by the Loop handler that
\* contains a Quit event returns the terminal state, whatever precedes or
\* follows the Quit; from the Quit on, the handler's next_state stays None.
C6_LoopQuitIsTerminal ==
    /\ (Returned(LOOP) /\ Has(events, Quit)) => state = None
    /\ ( /\ pc = "dispatch"
         /\ handler.cls = LoopStateHandler
         /\ Has(events, Quit) ) => handler.next_state = None

C6_Witness ==
    /\ Returned(LOOP)
    /\ events = << Quit, KeyDown(K_a) >>
    /\ game.quit_count = 0
    /\ state = None

\* C7: a Backspace key-down handled in Loop while loop_text is empty leaves
\* it empty and the handler goes on; a key-down in Loop whose code is
\* outside a-z and is neither Backspace nor Escape changes none of loop_text,
\* quit_count and next_state.
C7_LoopNoOps ==
    [][ \A e \in EventsOf("KEYDOWN") :
          ( /\ pc = "dispatch"
            /\ handler.cls = LoopStateHandler
            /\ events' = Append(events, e) )
              => /\ (e.sym = K_BACKSPACE /\ game.loop_text = << >>)
                    => (game'.loop_text = << >> /\ pc' = "dispatch")
                 /\ (e.sym \notin (K_a..K_z) \cup {K_BACKSPACE, K_ESCAPE})
                    => /\ game'.loop_text = game.loop_text
                       /\ game'.quit_count = game.quit_count
                       /\ handler'.next_state = handler.next_state
                       /\ pc' = "dispatch" ]_vars

\* In the first iteration a second Backspace has met an empty loop_text
\* (the text run_fsm starts with has at most one character).
C7_Witness ==
    /\ pc = "dispatch"
    /\ handler.cls = LoopStateHandler
    /\ prev_iteration = NoIter
    /\ events = << KeyDown(K_BACKSPACE), KeyDown(K_BACKSPACE) >>
    /\ game.loop_text = << >>

RECURSIVE Concat(_)
Concat(lines) ==
    IF lines = << >> THEN << >> ELSE Head(lines).s \o Concat(Tail(lines))

\* C8: for a loop_text of length L and W = CONSOLE_WIDTH, draw_loop writes
\* exactly ceil(L / W) lines (none when L = 0), the k-th (from 0) at column 0
\* of row k, each at most W long and all but the last exactly W long, and
\* the lines joined in row order are loop_text uppercased.  The hook has
\* drawn them when the handler waits for input.
C8_LoopTextWrapping ==
    (pc = "wait" /\ handler.cls = LoopStateHandler) =>
        LET text == game.loop_text
            lines == game.draw_console
            n == Len(lines)
        IN  /\ n = (Len(text) + CONSOLE_WIDTH - 1) \div CONSOLE_WIDTH
            /\ Len(text) = 0 => n = 0
            /\ \A k \in 0..(n - 1) :
                 /\ lines[k + 1].x = 0
                 /\ lines[k + 1].y = k
                 /\ Len(lines[k + 1].s) <= CONSOLE_WIDTH
                 /\ k < n - 1 => Len(lines[k + 1].s) = CONSOLE_WIDTH
            /\ Concat(lines) = StrUpper(text)
            /\ \A k \in 1..Len(text) :
                 \E m \in 0..25 : /\ text[k] = Chr(K_a + m)
                                  /\ Concat(lines)[k] = Chr(65 + m)

C8_Witness ==
    /\ pc = "wait"
    /\ handler.cls = LoopStateHandler
    /\ Len(game.loop_text) = 2 * CONSOLE_WIDTH + 1
    /\ Len(game.draw_console) = 3
    /\ game.draw_console[3] = [x |-> 0, y |-> 2, s |-> << "R" >>]

\* n key-downs with the given letter codes followed by n Backspaces
RoundTrip(codes) ==
    [k \in 1..(2 * Len(codes)) |->
        IF k <= Len(codes) THEN KeyDown(codes[k]) ELSE KeyDown(K_BACKSPACE)]

LetterRuns == UNION {[1..n -> {K_a, K_z}] : n \in 0..MaxRound}

\* What the next iteration's handler starts from when handle() returned r
\* with next_state Loop: a new handler for that state, after the redraw
Reentered(r) ==
    [next_state |-> StateHandler(LoopStateHandler, r.next_state).next_state,
     game |-> on_reenter_state(LoopStateHandler, r.game)]

SameGameState(a, b) ==
    /\ a.game.loop_text = b.game.loop_text
    /\ a.game.quit_count = b.game.quit_count
    /\ a.next_state = b.next_state

\* C9: in Loop, from every loop_text t, n key-downs with codes in a-z followed
\* by n Backspaces bring loop_text back to t and leave quit_count and the
\* requested next state as they were: as one batch, as the rest of a batch
\* that began with any other event, and split over two or three batches.
C9_AppendBackspaceRoundTrip ==
    (pc = "wait" /\ handler.cls = LoopStateHandler) =>
      \A self \in {[next_state |-> handler.next_state, game |-> game]} :
      \A codes \in LetterRuns :
        LET evs == RoundTrip(codes)
            len == Len(evs)
        IN  /\ \A first \in Events :
               \A s0 \in {Dispatch(LoopStateHandler, self, first)} :
               \A r \in {HandleAll(LoopStateHandler, s0, evs)} :
                  SameGameState(r, s0)
            /\ \A a \in 0..len :
               \A r1 \in {HandleAll(LoopStateHandler, self,
                                    SubSeq(evs, 1, a))} :
                 /\ r1.next_state = LOOP
                 /\ \A s1 \in {Reentered(r1)} : \A b \in a..len :
                    \A r2 \in {HandleAll(LoopStateHandler, s1,
                                         SubSeq(evs, a + 1, b))} :
                      /\ r2.next_state = LOOP
                      /\ \A s2 \in {Reentered(r2)} :
                         \A r3 \in {HandleAll(LoopStateHandler, s2,
                                              SubSeq(evs, b + 1, len))} :
                            SameGameState(r3, self)

\* The Loop handler has been given a letter and then a Backspace in one
\* batch, and loop_text is the one-character text it was before.
C9_Witness ==
    /\ pc = "dispatch"
    /\ handler.cls = LoopStateHandler
    /\ events = << KeyDown(K_a), KeyDown(K_BACKSPACE) >>
    /\ game.loop_text = << "z" >>

\* C10: in every iteration exactly one of on_enter_state / on_reenter_state
\* is invoked, before the handler waits for input; it is on_reenter_state
\* exactly when there was a previous iteration and its state is the current
\* state, and on_enter_state otherwise; so the first iteration enters.
C10_HookSelection ==
    /\ pc = "hook" => hooks = << >>
    /\ pc \in {"wait", "dispatch"} =>
         /\ Len(hooks) = 1
         /\ hooks[1] \in {"on_enter_state", "on_reenter_state"}
         /\ hooks[1] = "on_reenter_state" <=>
              (prev_iteration # NoIter /\ prev_iteration = state)
         /\ prev_iteration = NoIter => hooks[1] = "on_enter_state"

\* The Title screen has been re-entered (after a batch that asked for
\* nothing) and the handler waits for input.
C10_Witness ==
    /\ pc = "wait"
    /\ state = TITLE
    /\ prev_iteration = TITLE
    /\ hooks = << "on_reenter_state" >>

\* C11: run_fsm returns exactly when the current state is terminal. It never
\* returns while the state the last handle() returned is Title or Loop, and
\* every state that is None is at the while test or past it. Once handle()
\* has returned None the only step left is the return of run_fsm: no handler
\* is constructed, no hook draws or blits, no event is consumed, and
\* loop_text and quit_count never change again.
C11_ReturnsExactlyWhenTerminal ==
    /\ [](pc = "done" => state = None)
    /\ [](state = None => pc \in {"loop", "done"})
    /\ [][(state = None /\ pc = "loop") => pc' = "done"]_vars
    /\ [][state = None =>
            /\ state' = None
            /\ handler' = handler
            /\ hooks' = hooks
            /\ enterCalls' = enterCalls
            /\ events' = events
            /\ game' = game]_vars
    /\ [][pc = "done" => FALSE]_vars

C11_Witness ==
    /\ pc = "done"
    /\ prev_iteration = LOOP
    /\ Len(game.loop_text) = 1
    /\ game.quit_count = QUIT_LIMIT
    /\ hooks = << "on_reenter_state" >>

\* C12: None is never a key of the handler table, and every state a handler
\* was looked up for is a key of the table and is not None. With main's table
\* and the initial state Title the lookup never fails. When the table lacks
\* the current state, run_fsm stops at the lookup with an error: no handler
\* is constructed, no hook draws or blits, no event is consumed, the Game is
\* untouched, and nothing happens afterwards.
C12_TableExhaustive ==
    /\ [](None \notin DOMAIN state_handlers)
    /\ [](pc \in {"hook", "wait", "dispatch"} =>
            /\ state # None
            /\ state \in DOMAIN state_handlers
            /\ handler.cls = state_handlers[state])
    /\ []((state_handlers = MainHandlers /\ start.state = TITLE) =>
            /\ pc # "error"
            /\ state \in DOMAIN state_handlers \cup {None})
    /\ [][(pc = "loop" /\ state # None /\ state \notin DOMAIN state_handlers) =>
            /\ pc' = "error"
            /\ handler' = handler
            /\ hooks' = hooks
            /\ enterCalls' = enterCalls
            /\ events' = events
            /\ game' = game]_vars
    /\ [](pc = "error" => state \notin DOMAIN state_handlers)
    /\ [][pc = "error" => FALSE]_vars

C12_Witness ==
    /\ pc = "error"
    /\ state = LOOP
    /\ prev_iteration = TITLE
    /\ events = << KeyDown(K_a) >>
    /\ hooks = << "on_enter_state" >>
    /\ enterCalls = 1

\* What a title handler asks for after a batch, read from the batch in queue
\* order: the last Quit or key-down decides
RECURSIVE TitleRequest(_)
TitleRequest(batch) ==
    IF batch = << >> THEN TITLE
    ELSE LET e == batch[Len(batch)]
         IN  IF e.type = "QUIT" THEN None
             ELSE IF e.type = "KEYDOWN"
             THEN IF e.sym = K_ESCAPE THEN None ELSE LOOP
             ELSE TitleRequest(SubSeq(batch, 1, Len(batch) - 1))

\* C13: every event of a batch goes, in queue order, to the one handler
\* constructed for the state the iteration started in: while a batch is being
\* dispatched the handler's class and the current state do not change, and a
\* transition an event asks for is only stored in the handler until handle()
\* returns it after the whole batch. So in a Title batch the events after the
\* key that asked for the transition are still handled by the title handler:
\* the state asked for is the one the last Quit or key-down of the batch
\* gives, and neither loop_text nor quit_count changes.
C13_BatchRouting ==
    /\ [](pc \in {"wait", "dispatch"} => handler.cls = state_handlers[state])
    /\ [][pc = "dispatch" =>
            /\ handler'.cls = handler.cls
            /\ \/ /\ pc' = "dispatch"
                  /\ state' = state
                  /\ Len(events') = Len(events) + 1
                  /\ SubSeq(events', 1, Len(events)) = events
               \/ /\ pc' = "loop"
                  /\ state' = handler.next_state
                  /\ events' = events
                  /\ game' = game]_vars
    /\ []((pc = "dispatch" /\ handler.cls = TitleStateHandler) =>
            handler.next_state = TitleRequest(events))
    /\ [][(pc = "dispatch" /\ handler.cls = TitleStateHandler) =>
            /\ game'.loop_text = game.loop_text
            /\ game'.quit_count = game.quit_count]_vars

C13_Witness ==
    /\ Returned(TITLE)
    /\ events = << KeyDown(K_a), KeyDown(K_ESCAPE) >>
    /\ state = None
    /\ game.loop_text = << >>
    /\ game.quit_count = 0

\* C14: the handler of every iteration starts with next_state equal to the
\* current state, whatever the handler of the previous iteration asked for.
\* A Loop batch with no Quit and without the Escape that brings quit_count to
\* 10 returns Loop, and a Title batch with no Quit and no key-down returns
\* Title.
C14_StayByDefault ==
    /\ pc \in {"hook", "wait"} => handler.next_state = state
    /\ (pc = "dispatch" /\ events = << >>) => handler.next_state = state
    /\ (/\ Returned(LOOP)
        /\ ~Has(events, Quit)
        /\ ~(/\ game.quit_count - EscIn(events) < QUIT_LIMIT
             /\ QUIT_LIMIT <= game.quit_count)) => state = LOOP
    /\ (/\ Returned(TITLE)
        /\ \A k \in 1..Len(events) : events[k].type \notin {"QUIT", "KEYDOWN"})
         => state = TITLE

C14_Witness ==
    /\ Returned(LOOP)
    /\ state = LOOP
    /\ events = << KeyDown(K_ESCAPE), KeyDown(K_z) >>
    /\ game.quit_count = QUIT_LIMIT + 1
    /\ last_state = LOOP

----------------------------------------------------------------------------
(* run_fsm as main calls it, with an input source that keeps delivering *)

\* lines 152-157: main's table, State.TITLE and a new Game
InitLive ==
    /\ Init
    /\ state_handlers = MainHandlers
    /\ state = TITLE
    /\ game = NewGame(<< >>, 0)

\* with main's table the lookup of line 124 cannot fail
NextLive ==
    \/ Exit
    \/ Construct
    \/ OnReenterState
    \/ OnEnterState
    \/ Wait
    \/ TitleQuit
    \/ TitleKeydown
    \/ TitleIgnored
    \/ LoopQuit
    \/ LoopKeydown
    \/ LoopIgnored
    \/ Return

\* the input source yields an Escape key-down
EscapeArrives == pc = "dispatch" /\ DispatchNext(KeyDown(K_ESCAPE))

\* run_fsm is sequential code: the step it is at is taken. wait() returns
\* once an event is queued and its iterator ends when the queue is empty.
\* Escape key-downs keep arriving.
Fairness ==
    /\ WF_vars(NextLive)
    /\ WF_vars(Return)
    /\ SF_vars(EscapeArrives)

SpecLive == InitLive /\ [][NextLive]_vars /\ Fairness

\* C15: called as main calls it, with an input source whose batches are
\* non-empty and end, and from which Escape key-downs keep arriving, run_fsm
\* eventually returns. A Quit dispatched to the loop handler makes handle()
\* return None at the end of that iteration, and run_fsm then returns.
C15_ExitIsLive ==
    /\ <>(pc = "done")
    /\ [](Returned(LOOP) /\ Has(events, Quit) => state = None)
    /\ (pc = "dispatch" /\ handler.cls = LoopStateHandler /\ Has(events, Quit))
         ~> (pc = "done")

C15_Witness ==
    /\ pc = "done"
    /\ prev_iteration = LOOP
    /\ escDelivered = QUIT_LIMIT
    /\ ~quitDelivered

\* What the screen of state s shows for loop_text text, as print calls since
\* the last clear: 'Hello!' at the origin for the title, and for the loop one
\* upper-cased line of at most CONSOLE_WIDTH characters per row
Screen(s, text) ==
    IF s = TITLE
    THEN << [x |-> 0, y |-> 0, s |-> Hello] >>
    ELSE [r \in 1..((Len(text) + CONSOLE_WIDTH - 1) \div CONSOLE_WIDTH) |->
            [x |-> 0, y |-> r - 1,
             s |-> [k \in 1..Min(CONSOLE_WIDTH,
                                 Len(text) - (r - 1) * CONSOLE_WIDTH) |->
                      UpperOf[text[(r - 1) * CONSOLE_WIDTH + k]]]]]

\* C16: whenever run_fsm is blocked in wait() (and until handle() returns),
\* the root console shows the screen of the current state for the loop_text
\* of the moment the wait began: 'Hello!' at the origin in Title, the wrapped
\* upper-cased loop_text in Loop. Every change the previous batch made to
\* loop_text has been drawn and blitted before the wait.
C16_DisplayAtWait ==
    /\ pc = "wait" => game.root_console = Screen(state, game.loop_text)
    /\ pc = "wait" => game.draw_console = game.root_console
    /\ (pc = "dispatch" /\ events = << >>) =>
          game.root_console = Screen(state, game.loop_text)

C16_Witness ==
    /\ pc = "wait"
    /\ state = LOOP
    /\ prev_iteration = LOOP
    /\ events = << >>
    /\ game.loop_text = << "z", "a" >>
    /\ game.root_console = << [x |-> 0, y |-> 0, s |-> << "Z", "A" >>] >>

\* The step dispatches one more event to the handler of this iteration
Handles(e) == pc = "dispatch" /\ events' = Append(events, e)

\* C17: no event changes loop_text or quit_count in the title handler (an
\* Escape on the title screen is not counted). In the loop handler a Quit
\* changes neither, an Escape key-down leaves loop_text alone, every other
\* key-down leaves quit_count alone. quit_count never decreases, changes only
\* when the loop handler handles an Escape key-down and then grows by exactly
\* 1, so it is the count run_fsm started with plus the Escapes handled in Loop.
C17_HandlerFrame ==
    /\ [][\A e \in Events : Handles(e) =>
            IF handler.cls = TitleStateHandler
            THEN game' = game
            ELSE /\ e.type = "QUIT" => game' = game
                 /\ e = KeyDown(K_ESCAPE) =>
                      /\ game'.loop_text = game.loop_text
                      /\ game'.quit_count = game.quit_count + 1
                 /\ e # KeyDown(K_ESCAPE) =>
                      game'.quit_count = game.quit_count]_vars
    /\ [][/\ game'.quit_count >= game.quit_count
          /\ game'.quit_count # game.quit_count =>
               /\ handler.cls = LoopStateHandler
               /\ Handles(KeyDown(K_ESCAPE))]_vars
    /\ [](game.quit_count = start.quit_count + escDelivered)

C17_Witness ==
    /\ pc = "dispatch"
    /\ handler.cls = TitleStateHandler
    /\ events = << KeyDown(K_z), KeyDown(K_ESCAPE) >>
    /\ game.quit_count = QUIT_LIMIT - 1
    /\ start.quit_count = QUIT_LIMIT - 1
    /\ game.loop_text = << "z" >>

\* run_fsm was called as main calls it: main's table, State.TITLE
CalledAsMain == state_handlers = MainHandlers /\ start.state = TITLE

\* C18: called with main's table and State.TITLE, run_fsm never goes from
\* Loop back to Title and never leaves the terminal state: the first
\* iteration is a Title iteration, a Title iteration is followed by Title,
\* Loop or the end, a Loop iteration by Loop or the end. on_enter_state is
\* therefore called at most twice: once for Title in the first iteration and
\* at most once for Loop, in the first Loop iteration.
C18_OneWayOrder ==
    /\ [](CalledAsMain =>
            /\ prev_iteration = NoIter => state = TITLE
            /\ prev_iteration = LOOP => state \in {LOOP, None}
            /\ enterCalls <= 2
            /\ state = TITLE => enterCalls <= 1
            /\ (pc \in {"wait", "dispatch"} /\ hooks = << "on_enter_state" >>) =>
                 \/ enterCalls = 1 /\ state = TITLE /\ prev_iteration = NoIter
                 \/ enterCalls = 2 /\ state = LOOP /\ prev_iteration = TITLE)
    /\ [][CalledAsMain =>
            /\ state = LOOP => state' \in {LOOP, None}
            /\ state = None => state' = None
            /\ enterCalls' \in {enterCalls, enterCalls + 1}]_vars

C18_Witness ==
    /\ CalledAsMain
    /\ pc = "done"
    /\ prev_iteration = LOOP
    /\ enterCalls = 2
    /\ Len(game.loop_text) = MaxText

----------------------------------------------------------------------------
(* run_fsm with an input source that only yields Quit and KeyDown events *)

NextQuitOrKeydown ==
    \/ Exit
    \/ LookupFails
    \/ Construct
    \/ OnReenterState
    \/ OnEnterState
    \/ Wait
    \/ TitleQuit
    \/ TitleKeydown
    \/ LoopQuit
    \/ LoopKeydown
    \/ Return

SpecQuitOrKeydown == Init /\ [][NextQuitOrKeydown]_vars

\* C19: when every event is a Quit or a key-down (and every batch has at
\* least one event), a Title iteration is always the first iteration of the
\* run and returns Loop or None, so Title lasts exactly one iteration and
\* on_reenter_state is never called for Title.
C19_TitleLastsOneIteration ==
    /\ \A k \in 1..Len(events) : events[k].type \in {"QUIT", "KEYDOWN"}
    /\ pc = "loop" /\ prev_iteration # NoIter => Len(events) >= 1
    /\ Returned(TITLE) => state \in {LOOP, None}
    /\ state = TITLE => prev_iteration = NoIter /\ start.state = TITLE
    /\ handler.cls = TitleStateHandler => ~Has(hooks, "on_reenter_state")
    /\ (handler.cls = TitleStateHandler /\ pc \in {"wait", "dispatch"}) =>
          hooks = << "on_enter_state" >>

C19_Witness ==
    /\ Returned(TITLE)
    /\ events = << KeyDown(K_BACKSPACE) >>
    /\ state = LOOP
    /\ hooks = << "on_enter_state" >>
    /\ enterCalls = 1

LowerCase == << "a", "b", "c", "d", "e", "f", "g", "h", "i", "j", "k", "l", "m",
                "n", "o", "p", "q", "r", "s", "t", "u", "v", "w", "x", "y", "z" >>

\* C20: loop_text, which starts empty (or as a text of letters a-z), holds
\* only characters a-z in every reachable state. An a-z key-down handled by
\* the loop handler appends exactly the character of that key at the end, a
\* Backspace handled by the loop handler removes exactly the last character
\* (nothing when loop_text is empty), every other event and every other step
\* leaves loop_text as it is. So every handled event changes the length by at
\* most one and loop_text changes only while the current state is Loop.
C20_TextAlphabetAndSteps ==
    /\ [](\A k \in 1..Len(game.loop_text) :
             \E n \in 1..Len(LowerCase) : game.loop_text[k] = LowerCase[n])
    /\ [][\A e \in Events : Handles(e) =>
            IF handler.cls = LoopStateHandler /\ e.type = "KEYDOWN"
               /\ K_a <= e.sym /\ e.sym <= K_z
            THEN game'.loop_text =
                   game.loop_text \o << LowerCase[e.sym - K_a + 1] >>
            ELSE IF handler.cls = LoopStateHandler /\ e = KeyDown(K_BACKSPACE)
                    /\ game.loop_text # << >>
            THEN /\ game.loop_text = game'.loop_text \o
                       << game.loop_text[Len(game.loop_text)] >>
                 /\ Len(game'.loop_text) = Len(game.loop_text) - 1
            ELSE game'.loop_text = game.loop_text]_vars
    /\ [][game'.loop_text # game.loop_text =>
            /\ state = LOOP
            /\ state' = LOOP
            /\ pc = "dispatch"
            /\ Len(game'.loop_text) - Len(game.loop_text) \in {-1, 1}]_vars

C20_Witness ==
    /\ pc = "dispatch"
    /\ state = LOOP
    /\ events = << KeyDown(K_BACKSPACE), KeyDown(K_a) >>
    /\ game.loop_text = << "a" >>
    /\ prev_iteration = TITLE

====
